---- MODULE Spec2Model ----
(***************************************************************************)
(* Model of the hierarchical document summarizer of                        *)
(* research-paper-aggregator (src/src/summarizer.py).                      *)
(*                                                                         *)
(* A text is a sequence of symbols.  A positive integer k is a run of k    *)
(* word characters holding no separator; the negative codes below are the  *)
(* characters and words the code treats specially.  The tokenizer is an    *)
(* external library (tiktoken); it is modelled as one token per character, *)
(* which is deterministic and additive under concatenation.                *)
(***************************************************************************)
EXTENDS Integers, Sequences, FiniteSets, TLC

\* ------------------------------------------------------------- symbols
DOT == -1
SP == -2
NL == -3
REF == -4
ABS == -5
\* "references" in any other casing than REFERENCES or References
REFLC == -6
\* the other header words of detect_sections, in any casing
INTRO == -7
RELATED == -8
METHOD == -9
RESULTS == -10
DISCUSS == -11
CONCL == -12
\* the digit "1" and any other run of digits
ONE == -13
NUM == -14
GENBASE == -100

\* separators the chunker splits on and re-inserts
ParaSep == <<NL, NL>>
SentSep == <<DOT, SP>>

\* the text of the k-th successful generation call (opaque model output)
Gen(k) == <<GENBASE - k>>

IsGenerated(t) == Len(t) = 1 /\ t[1] < GENBASE

\* number of characters of one symbol
CharLen(c) ==
    IF c > 0 THEN c
    ELSE IF c \in {REF, REFLC, RELATED, DISCUSS, CONCL} THEN 10
    ELSE IF c = INTRO THEN 12
    ELSE IF c \in {METHOD, RESULTS} THEN 7
    ELSE 1

RECURSIVE TextLen(_)
TextLen(s) == IF s = <<>> THEN 0 ELSE CharLen(Head(s)) + TextLen(Tail(s))

\* PaperSummarizer._count_tokens
count_tokens(text) == TextLen(text)

\* str.split(sep) for a two-character separator: left to right, non-overlapping
RECURSIVE SplitFrom(_, _, _, _, _)
SplitFrom(s, sep, i, cur, acc) ==
    IF i > Len(s) THEN Append(acc, cur)
    ELSE IF i + 1 <= Len(s) /\ s[i] = sep[1] /\ s[i + 1] = sep[2]
         THEN SplitFrom(s, sep, i + 2, <<>>, Append(acc, cur))
         ELSE SplitFrom(s, sep, i + 1, Append(cur, s[i]), acc)

Split(s, sep) == SplitFrom(s, sep, 1, <<>>, <<>>)

\* sep.join(parts)
RECURSIVE Join(_, _)
Join(parts, sep) ==
    IF parts = <<>> THEN <<>>
    ELSE IF Len(parts) = 1 THEN parts[1]
    ELSE parts[1] \o sep \o Join(Tail(parts), sep)

\* text[:n], in characters; a run cut in the middle keeps its first part
RECURSIVE Prefix(_, _)
Prefix(s, n) ==
    IF s = <<>> \/ n <= 0 THEN <<>>
    ELSE IF CharLen(Head(s)) <= n
         THEN <<Head(s)>> \o Prefix(Tail(s), n - CharLen(Head(s)))
         ELSE <<n>>

\* concatenation of a list of texts
RECURSIVE Concat(_)
Concat(parts) == IF parts = <<>> THEN <<>> ELSE Head(parts) \o Concat(Tail(parts))

\* adjacent runs of word characters are one run
RECURSIVE Norm(_)
Norm(s) ==
    IF Len(s) < 2 THEN s
    ELSE IF s[1] > 0 /\ s[2] > 0
         THEN Norm(<<s[1] + s[2]>> \o SubSeq(s, 3, Len(s)))
         ELSE <<s[1]>> \o Norm(Tail(s))

\* ------------------------------------------------------------- chunker
\* the sentence-level loop of chunk_text
RECURSIVE SentenceLoop(_, _, _, _)
SentenceLoop(st, sentences, k, max_tokens) ==
    IF k > Len(sentences) THEN st
    ELSE LET sentence == sentences[k] IN
         IF count_tokens(st.cur \o sentence) > max_tokens
         THEN SentenceLoop([chunks |-> IF st.cur # <<>>
                                       THEN Append(st.chunks, st.cur)
                                       ELSE st.chunks,
                            cur |-> sentence],
                           sentences, k + 1, max_tokens)
         ELSE SentenceLoop([chunks |-> st.chunks,
                            cur |-> st.cur \o sentence \o SentSep],
                           sentences, k + 1, max_tokens)

\* ParaStep with the flush storing the new paragraph and keeping the buffer
ParaStepFlushesParagraph(st, para, max_tokens) ==
    LET potential_chunk == IF st.cur # <<>> THEN st.cur \o ParaSep \o para ELSE para
    IN IF count_tokens(potential_chunk) > max_tokens
       THEN IF st.cur # <<>>
            THEN [chunks |-> Append(st.chunks, para), cur |-> st.cur]
            ELSE SentenceLoop(st, Split(para, SentSep), 1, max_tokens)
       ELSE [chunks |-> st.chunks, cur |-> potential_chunk]

\* ParaStep flushing already when the buffer with the paragraph reaches the budget
ParaStepFlushesAtBudget(st, para, max_tokens) ==
    LET potential_chunk == IF st.cur # <<>> THEN st.cur \o ParaSep \o para ELSE para
    IN IF count_tokens(potential_chunk) >= max_tokens
       THEN IF st.cur # <<>>
            THEN [chunks |-> Append(st.chunks, st.cur), cur |-> para]
            ELSE SentenceLoop(st, Split(para, SentSep), 1, max_tokens)
       ELSE [chunks |-> st.chunks, cur |-> potential_chunk]

\* one iteration of the paragraph loop of chunk_text
ParaStep(st, para, max_tokens) ==
    LET potential_chunk == IF st.cur # <<>> THEN st.cur \o ParaSep \o para ELSE para
    IN IF count_tokens(potential_chunk) > max_tokens
       THEN IF st.cur # <<>>
            THEN [chunks |-> Append(st.chunks, st.cur), cur |-> para]
            ELSE SentenceLoop(st, Split(para, SentSep), 1, max_tokens)
       ELSE [chunks |-> st.chunks, cur |-> potential_chunk]

RECURSIVE ParaLoop(_, _, _, _)
ParaLoop(st, paragraphs, k, max_tokens) ==
    IF k > Len(paragraphs) THEN st
    ELSE ParaLoop(ParaStep(st, paragraphs[k], max_tokens), paragraphs, k + 1, max_tokens)

\* PaperSummarizer.chunk_text
chunk_text(text, max_tokens) ==
    LET st == ParaLoop([chunks |-> <<>>, cur |-> <<>>],
                       Split(text, ParaSep), 1, max_tokens)
    IN IF st.cur # <<>> THEN Append(st.chunks, st.cur) ELSE st.chunks

\* ---------------------------------------------------------- constants
\* summarize_paper_full_text: if token_count < 50000
SinglePassThreshold == 50000
\* summarize_paper_full_text: chunk_text(text_no_refs, max_tokens=15000)
ChunkMaxTokens == 15000
\* summarize_text_chunk: chunk[:500]
ExcerptLen == 500

\* ------------------------------------------------------ text extraction
\* "\n--- Page {k} ---\n": the line between the newlines holds no separator
PageMarker(k) == <<NL, IF k < 10 THEN 14 ELSE 15, NL>>

RECURSIVE ExtractFrom(_, _)
ExtractFrom(doc, k) ==
    IF k > Len(doc) THEN <<>>
    ELSE PageMarker(k) \o doc[k] \o ExtractFrom(doc, k + 1)

\* PaperSummarizer.extract_text_from_pdf, when no call of the PDF library raises
extract_text_from_pdf(doc) == ExtractFrom(doc, 1)

\* --------------------------------------------------- reference stripping
\* \s of the regular expressions
IsWs(c) == c \in {SP, NL}

\* r"\n\s*(?:REFERENCES|References)\s*\n" matches text starting at position p
RefHeaderAt(s, p) ==
    /\ s[p] = NL
    /\ \E q \in (p + 1)..Len(s) :
          /\ s[q] = REF
          /\ \A j \in (p + 1)..(q - 1) : IsWs(s[j])
          /\ \E e \in (q + 1)..Len(s) :
                /\ s[e] = NL
                /\ \A j \in (q + 1)..(e - 1) : IsWs(s[j])

\* re.split(header, full_text, maxsplit=1)[0]
StripRefs(s) ==
    LET starts == {p \in 1..Len(s) : RefHeaderAt(s, p)}
    IN IF starts = {} THEN s
       ELSE SubSeq(s, 1, (CHOOSE p \in starts : \A r \in starts : p <= r) - 1)

\* ------------------------------------------------------ section detection
\* section_patterns: the header words of each rule (matched with re.IGNORECASE),
\* the digit runs its optional numeric prefix accepts, and the rank of its name
\* in string order
section_patterns ==
    << [name |-> "introduction", words |-> {INTRO}, digits |-> {ONE}, rank |-> 3],
       [name |-> "related_work", words |-> {RELATED}, digits |-> {ONE, NUM}, rank |-> 6],
       [name |-> "methodology", words |-> {METHOD}, digits |-> {ONE, NUM}, rank |-> 4],
       [name |-> "results", words |-> {RESULTS}, digits |-> {ONE, NUM}, rank |-> 7],
       [name |-> "discussion", words |-> {DISCUSS}, digits |-> {ONE, NUM}, rank |-> 2],
       [name |-> "conclusion", words |-> {CONCL}, digits |-> {ONE, NUM}, rank |-> 1],
       [name |-> "references", words |-> {REF, REFLC}, digits |-> {}, rank |-> 5] >>

AllWs(s, a, b) == \A j \in a..b : IsWs(s[j])

\* r"\n\s*(?:\d+\.?\s+)?(?:WORDS)\s*\n" of a rule matches text starting at p
HeaderAt(s, p, rule) ==
    /\ s[p] = NL
    /\ \E q \in (p + 1)..Len(s) :
          /\ s[q] \in rule.words
          /\ \E e \in (q + 1)..Len(s) : s[e] = NL /\ AllWs(s, q + 1, e - 1)
          /\ \/ AllWs(s, p + 1, q - 1)
             \/ \E d \in (p + 1)..(q - 2) :
                   /\ s[d] \in rule.digits
                   /\ AllWs(s, p + 1, d - 1)
                   /\ \/ AllWs(s, d + 1, q - 1)
                      \/ d + 2 <= q - 1 /\ s[d + 1] = DOT /\ AllWs(s, d + 2, q - 1)

\* FirstMatch taking the last match of a rule
FirstMatchTakesLast(s, rule) ==
    LET starts == {p \in 1..Len(s) : HeaderAt(s, p, rule)}
    IN IF starts = {} THEN 0 ELSE CHOOSE p \in starts : \A r \in starts : p >= r

\* matches[0].start() of a rule, 0 when the rule never matches
FirstMatch(s, rule) ==
    LET starts == {p \in 1..Len(s) : HeaderAt(s, p, rule)}
    IN IF starts = {} THEN 0 ELSE CHOOSE p \in starts : \A r \in starts : p <= r

\* the (start, name) pairs of the rules that match
Positions0(s) ==
    {[start |-> FirstMatch(s, section_patterns[i]),
      name |-> section_patterns[i].name,
      rank |-> section_patterns[i].rank] :
        i \in {j \in 1..Len(section_patterns) : FirstMatch(s, section_patterns[j]) > 0}}

\* positions.sort(): by start, then by name
RECURSIVE SortPositions(_)
SortPositions(ps) ==
    IF ps = {} THEN <<>>
    ELSE LET least == CHOOSE x \in ps : \A y \in ps :
                          x.start < y.start \/ (x.start = y.start /\ x.rank <= y.rank)
         IN <<least>> \o SortPositions(ps \ {least})

\* str.strip()
RECURSIVE StripWs(_)
StripWs(s) ==
    IF s = <<>> THEN s
    ELSE IF IsWs(Head(s)) THEN StripWs(Tail(s))
    ELSE IF IsWs(s[Len(s)]) THEN StripWs(SubSeq(s, 1, Len(s) - 1))
    ELSE s

\* the text stored for the i-th matched section
SectionText(s, positions, i) ==
    StripWs(SubSeq(s, positions[i].start,
                   IF i < Len(positions) THEN positions[i + 1].start - 1 ELSE Len(s)))

\* PaperSummarizer.detect_sections: the entries of the dict, in insertion order
detect_sections(s) ==
    LET positions == SortPositions(Positions0(s))
    IN [i \in 1..Len(positions) |->
           [name |-> positions[i].name, text |-> SectionText(s, positions, i)]]

\* ------------------------------------------------------------- results
\* the tag built from the last 0-based loop index instead of len(chunks)
HierarchicalMethodLastIndex(n) == [tag |-> "hierarchical_chunks", n |-> n - 1]

HierarchicalMethod(n) == [tag |-> "hierarchical_chunks", n |-> n]

Method(tag) == [tag |-> tag, n |-> 0]

NoResult == [summary |-> <<>>, method |-> Method("none"), content |-> FALSE]

\* {"summary": paper["abstract"], "method": "abstract_only"}
AbstractResult == [summary |-> <<ABS>>, method |-> Method("abstract_only"), content |-> FALSE]

\* single pass without a client: the stripped text, tagged abstract_only
NoClientResult(text) == [summary |-> text, method |-> Method("abstract_only"), content |-> TRUE]

SinglePassResult(generated) ==
    [summary |-> generated, method |-> Method("full_text_single_pass"), content |-> TRUE]

HierarchicalResult(final_summary, n) ==
    [summary |-> final_summary, method |-> HierarchicalMethod(n), content |-> TRUE]

\* the fallback returning the chunk without truncating it
ChunkExcerptUntruncated(chunk) == chunk

\* summarize_text_chunk: return chunk[:500]
ChunkExcerpt(chunk) == Prefix(chunk, ExcerptLen)

\* the fallback returning the prompt's "combined" text, joined with "\n\n---\n\n"
JoinSummariesCombined(section_summaries) == Join(section_summaries, <<NL, NL, 3, NL, NL>>)

\* create_final_summary: return "\n\n".join(section_summaries)
JoinSummaries(section_summaries) == Join(section_summaries, ParaSep)

\* ----------------------------------------------------------- the inputs
MaxPages == 4

\* a page of one long line: four of them extract to exactly the threshold
Big == (SinglePassThreshold \div 4) - 17

PageTexts ==
    { <<Big, NL>>,
      <<Big - 1, NL>>,
      <<1>>,
      <<Big, DOT, SP, Big, NL>>,
      <<NL, REF, NL, 1, NL>>,
      <<NL, REFLC, NL, 1, NL>>,
      <<>> }

Docs == UNION {[1..n -> PageTexts] : n \in 0..MaxPages}

VARIABLES
    pc,               \* position in summarize_paper_full_text
    pdf_path,         \* whether the pdf_path argument is given
    pages,            \* the page texts of the PDF behind pdf_path
    client,           \* whether self.client is set
    extract_outcome,  \* "none", "exception" or "text"
    full_text, text_no_refs, token_count,
    sections,         \* the dict detect_sections returned, in insertion order
    chunks, chunk_summaries,
    merge_arg,        \* the list passed to create_final_summary
    result,           \* the returned dict
    calls,            \* the calls made so far, in order
    reports,          \* the lines printed for failures and fallbacks
    ct_pc, ct_text, ct_max, ct_chunks,
    ds_pc, ds_text, ds_sections,
    papers,           \* the papers fetch_papers yields, in order
    pipe_pc,          \* position in summarize_papers_pipeline
    paper_idx,        \* the position of the loop in papers
    kb,               \* the document ids held by papers_collection
    pdf_cache,        \* the papers whose PDF is in pdf_cache_dir
    run,              \* the runs of the pipeline started so far
    plog,             \* what this run did with each paper it examined
    raised            \* the call whose exception ended the run

ovars == <<pc, pdf_path, pages, client, extract_outcome, full_text, text_no_refs,
           token_count, sections, chunks, chunk_summaries, merge_arg, result, calls,
           reports>>

cvars == <<ct_pc, ct_text, ct_max, ct_chunks>>

dvars == <<ds_pc, ds_text, ds_sections>>

pvars == <<papers, pipe_pc, paper_idx, kb, pdf_cache, run, plog, raised>>

vars == <<ovars, cvars, dvars, pvars>>

Call(op, idx, total, text) ==
    [op |-> op, idx |-> idx, total |-> total, text |-> text, ok |-> TRUE, site |-> ""]

\* client.messages.create at a call site, succeeding or raising
Generate(site, idx, ok) ==
    [op |-> "generate", idx |-> idx, total |-> 0, text |-> <<>>, ok |-> ok, site |-> site]

IsGenerate(c) == c.op = "generate"

NumGenerated == Cardinality({j \in 1..Len(calls) : IsGenerate(calls[j]) /\ calls[j].ok})

\* the text the next successful generation call returns
NextGen == Gen(NumGenerated + 1)

OrchIdle ==
    /\ pc = "IDLE" /\ pdf_path = FALSE /\ pages = <<>> /\ client = FALSE
    /\ extract_outcome = "none" /\ full_text = <<>> /\ text_no_refs = <<>>
    /\ token_count = 0 /\ chunks = <<>> /\ chunk_summaries = <<>> /\ merge_arg = <<>>
    /\ result = NoResult /\ calls = <<>> /\ reports = <<>> /\ sections = <<>>

ChunkIdle == ct_pc = "idle" /\ ct_text = <<>> /\ ct_max = 0 /\ ct_chunks = <<>>

DetectIdle == ds_pc = "idle" /\ ds_text = <<>> /\ ds_sections = <<>>

PipeIdle ==
    /\ papers = <<>> /\ pipe_pc = "idle" /\ paper_idx = 0 /\ kb = {} /\ pdf_cache = {}
    /\ run = 0 /\ plog = <<>> /\ raised = ""

Init ==
    /\ pc = "START"
    /\ pdf_path \in BOOLEAN
    /\ pages \in IF pdf_path THEN Docs ELSE {<<>>}
    /\ client \in BOOLEAN
    /\ extract_outcome = "none"
    /\ full_text = <<>> /\ text_no_refs = <<>> /\ token_count = 0
    /\ chunks = <<>> /\ chunk_summaries = <<>> /\ merge_arg = <<>>
    /\ result = NoResult /\ calls = <<>> /\ reports = <<>> /\ sections = <<>>
    /\ ChunkIdle /\ DetectIdle /\ PipeIdle

inputs == <<pdf_path, pages, client>>

\* if not pdf_path: return the abstract
NoPdfPath ==
    /\ pc = "START" /\ ~pdf_path
    /\ reports' = Append(reports, "Falling back to abstract only")
    /\ result' = AbstractResult
    /\ pc' = "FALLBACK_ABSTRACT"
    /\ UNCHANGED <<cvars, dvars, pvars, inputs, extract_outcome, full_text, text_no_refs, token_count, sections,
                   chunks, chunk_summaries, merge_arg, calls>>

\* full_text = self.extract_text_from_pdf(pdf_path) is called
BeginExtract ==
    /\ pc = "START" /\ pdf_path
    /\ calls' = Append(calls, Call("extract_text_from_pdf", 0, 0, <<>>))
    /\ pc' = "EXTRACTING"
    /\ UNCHANGED <<cvars, dvars, pvars, inputs, extract_outcome, full_text, text_no_refs, token_count, sections,
                   chunks, chunk_summaries, merge_arg, result, reports>>

\* the PDF library raises: extract_text_from_pdf returns None, the abstract is returned
ExtractRaises ==
    /\ pc = "EXTRACTING"
    /\ extract_outcome' = "exception"
    /\ reports' = reports \o <<"Error extracting text", "Falling back to abstract only">>
    /\ result' = AbstractResult
    /\ pc' = "FALLBACK_ABSTRACT"
    /\ UNCHANGED <<cvars, dvars, pvars, inputs, full_text, text_no_refs, token_count, sections,
                   chunks, chunk_summaries, merge_arg, calls>>

\* ExtractEmpty testing "full_text is None": the empty text goes on to counting
ExtractEmptyProceeds ==
    /\ pc = "EXTRACTING"
    /\ extract_text_from_pdf(pages) = <<>>
    /\ extract_outcome' = "text"
    /\ full_text' = <<>>
    /\ pc' = "COUNTING"
    /\ UNCHANGED <<cvars, dvars, pvars, inputs, text_no_refs, token_count, sections,
                   chunks, chunk_summaries, merge_arg, result, calls, reports>>

\* extraction returns the empty string (a PDF without pages): the abstract is returned
ExtractEmpty ==
    /\ pc = "EXTRACTING"
    /\ extract_text_from_pdf(pages) = <<>>
    /\ extract_outcome' = "text"
    /\ reports' = Append(reports, "Falling back to abstract only")
    /\ result' = AbstractResult
    /\ pc' = "FALLBACK_ABSTRACT"
    /\ UNCHANGED <<cvars, dvars, pvars, inputs, full_text, text_no_refs, token_count, sections,
                   chunks, chunk_summaries, merge_arg, calls>>

\* extraction returns text
ExtractText ==
    /\ pc = "EXTRACTING"
    /\ extract_text_from_pdf(pages) # <<>>
    /\ extract_outcome' = "text"
    /\ full_text' = extract_text_from_pdf(pages)
    /\ pc' = "COUNTING"
    /\ UNCHANGED <<cvars, dvars, pvars, inputs, text_no_refs, token_count, sections,
                   chunks, chunk_summaries, merge_arg, result, calls, reports>>

\* detect_sections, strip the references, count the tokens, choose the strategy
CountTokens ==
    /\ pc = "COUNTING"
    /\ text_no_refs' = StripRefs(full_text)
    /\ token_count' = count_tokens(StripRefs(full_text))
    /\ sections' = detect_sections(full_text)
    /\ calls' = calls \o <<Call("detect_sections", 0, 0, full_text),
                           Call("count_tokens", 0, 0, StripRefs(full_text))>>
    /\ pc' = IF count_tokens(StripRefs(full_text)) < SinglePassThreshold
             THEN "SINGLE_PASS" ELSE "HIERARCHICAL"
    /\ UNCHANGED <<cvars, dvars, pvars, inputs, extract_outcome, full_text,
                   chunks, chunk_summaries, merge_arg, result, reports>>

\* single pass, if not self.client
SinglePassNoClient ==
    /\ pc = "SINGLE_PASS" /\ ~client
    /\ result' = NoClientResult(text_no_refs)
    /\ pc' = "DONE"
    /\ UNCHANGED <<cvars, dvars, pvars, inputs, extract_outcome, full_text, text_no_refs, token_count, sections,
                   chunks, chunk_summaries, merge_arg, calls, reports>>

\* single pass, the generation call returns
SinglePassOk ==
    /\ pc = "SINGLE_PASS" /\ client
    /\ calls' = Append(calls, Generate("single_pass", 0, TRUE))
    /\ result' = SinglePassResult(NextGen)
    /\ pc' = "DONE"
    /\ UNCHANGED <<cvars, dvars, pvars, inputs, extract_outcome, full_text, text_no_refs, token_count, sections,
                   chunks, chunk_summaries, merge_arg, reports>>

\* SinglePassFails without the except clause: the exception leaves
\* summarize_paper_full_text and ends the caller's loop
SinglePassFailsUncaught ==
    /\ pc = "SINGLE_PASS" /\ client
    /\ calls' = Append(calls, Generate("single_pass", 0, FALSE))
    /\ pc' = "RAISED"
    /\ pipe_pc' = IF pipe_pc = "SUMMARIZING" THEN "ABORTED" ELSE pipe_pc
    /\ raised' = "summarize_paper_full_text"
    /\ UNCHANGED <<cvars, dvars, inputs, extract_outcome, full_text, text_no_refs, token_count,
                   sections, chunks, chunk_summaries, merge_arg, result, reports,
                   papers, paper_idx, kb, pdf_cache, run, plog>>

\* single pass, the generation call raises: the except clause prints and
\* control runs on into the chunking code
SinglePassFails ==
    /\ pc = "SINGLE_PASS" /\ client
    /\ calls' = Append(calls, Generate("single_pass", 0, FALSE))
    /\ reports' = Append(reports, "Error in single pass")
    /\ pc' = "HIERARCHICAL"
    /\ UNCHANGED <<cvars, dvars, pvars, inputs, extract_outcome, full_text, text_no_refs, token_count, sections,
                   chunks, chunk_summaries, merge_arg, result>>

\* chunks = self.chunk_text(text_no_refs, max_tokens=15000)
ChunkText ==
    /\ pc = "HIERARCHICAL"
    /\ calls' = Append(calls, Call("chunk_text", 0, 0, text_no_refs))
    /\ chunks' = chunk_text(text_no_refs, ChunkMaxTokens)
    /\ pc' = "SUMMARIZING"
    /\ UNCHANGED <<cvars, dvars, pvars, inputs, extract_outcome, full_text, text_no_refs, token_count, sections,
                   chunk_summaries, merge_arg, result, reports>>

\* NextChunkCall passing the 0-based loop index as the position
NextChunkCallZeroBased ==
    Call("summarize_text_chunk", Len(chunk_summaries), Len(chunks),
         chunks[Len(chunk_summaries) + 1])

\* the call of summarize_text_chunk the loop makes next
NextChunkCall ==
    Call("summarize_text_chunk", Len(chunk_summaries) + 1, Len(chunks),
         chunks[Len(chunk_summaries) + 1])

\* summarize_text_chunk, if not self.client
SummarizeNoClient ==
    /\ pc = "SUMMARIZING" /\ Len(chunk_summaries) < Len(chunks) /\ ~client
    /\ calls' = Append(calls, NextChunkCall)
    /\ chunk_summaries' = Append(chunk_summaries, ChunkExcerpt(NextChunkCall.text))
    /\ UNCHANGED <<cvars, dvars, pvars, pc, inputs, extract_outcome, full_text, text_no_refs, token_count, sections,
                   chunks, merge_arg, result, reports>>

\* summarize_text_chunk, the generation call returns
SummarizeOk ==
    /\ pc = "SUMMARIZING" /\ Len(chunk_summaries) < Len(chunks) /\ client
    /\ calls' = calls \o <<NextChunkCall, Generate("chunk", NextChunkCall.idx, TRUE)>>
    /\ chunk_summaries' = Append(chunk_summaries, NextGen)
    /\ UNCHANGED <<cvars, dvars, pvars, pc, inputs, extract_outcome, full_text, text_no_refs, token_count, sections,
                   chunks, merge_arg, result, reports>>

\* summarize_text_chunk, the generation call raises
SummarizeFails ==
    /\ pc = "SUMMARIZING" /\ Len(chunk_summaries) < Len(chunks) /\ client
    /\ calls' = calls \o <<NextChunkCall, Generate("chunk", NextChunkCall.idx, FALSE)>>
    /\ reports' = Append(reports, "Error summarizing chunk")
    /\ chunk_summaries' = Append(chunk_summaries, ChunkExcerpt(NextChunkCall.text))
    /\ UNCHANGED <<cvars, dvars, pvars, pc, inputs, extract_outcome, full_text, text_no_refs, token_count, sections,
                   chunks, merge_arg, result>>

MergeCall == Call("create_final_summary", 0, Len(chunk_summaries), <<>>)

\* create_final_summary, if not self.client, and the return
MergeNoClient ==
    /\ pc = "SUMMARIZING" /\ Len(chunk_summaries) = Len(chunks) /\ ~client
    /\ calls' = Append(calls, MergeCall)
    /\ merge_arg' = chunk_summaries
    /\ result' = HierarchicalResult(JoinSummaries(chunk_summaries), Len(chunks))
    /\ pc' = "DONE"
    /\ UNCHANGED <<cvars, dvars, pvars, inputs, extract_outcome, full_text, text_no_refs, token_count, sections,
                   chunks, chunk_summaries, reports>>

\* create_final_summary, the generation call returns, and the return
MergeOk ==
    /\ pc = "SUMMARIZING" /\ Len(chunk_summaries) = Len(chunks) /\ client
    /\ calls' = calls \o <<MergeCall, Generate("merge", 0, TRUE)>>
    /\ merge_arg' = chunk_summaries
    /\ result' = HierarchicalResult(NextGen, Len(chunks))
    /\ pc' = "DONE"
    /\ UNCHANGED <<cvars, dvars, pvars, inputs, extract_outcome, full_text, text_no_refs, token_count, sections,
                   chunks, chunk_summaries, reports>>

\* create_final_summary, the generation call raises, and the return
MergeFails ==
    /\ pc = "SUMMARIZING" /\ Len(chunk_summaries) = Len(chunks) /\ client
    /\ calls' = calls \o <<MergeCall, Generate("merge", 0, FALSE)>>
    /\ reports' = Append(reports, "Error creating final summary")
    /\ merge_arg' = chunk_summaries
    /\ result' = HierarchicalResult(JoinSummaries(chunk_summaries), Len(chunks))
    /\ pc' = "DONE"
    /\ UNCHANGED <<cvars, dvars, pvars, inputs, extract_outcome, full_text, text_no_refs, token_count, sections,
                   chunks, chunk_summaries>>

Next ==
    \/ NoPdfPath \/ BeginExtract \/ ExtractRaises \/ ExtractEmpty \/ ExtractText
    \/ CountTokens \/ SinglePassNoClient \/ SinglePassOk \/ SinglePassFails
    \/ ChunkText \/ SummarizeNoClient \/ SummarizeOk \/ SummarizeFails
    \/ MergeNoClient \/ MergeOk \/ MergeFails

Spec == Init /\ [][Next]_vars

\* ------------------------------------------------ what the claims speak of
Made(op) == \E j \in 1..Len(calls) : calls[j].op = op

Positions(op) == {j \in 1..Len(calls) : calls[j].op = op}

\* a generation call at a call site (and chunk position) raised
GenFailed(site, idx) ==
    \E j \in 1..Len(calls) :
        IsGenerate(calls[j]) /\ calls[j].site = site /\ calls[j].idx = idx /\ ~calls[j].ok

GenSucceeded(site, idx) ==
    \E j \in 1..Len(calls) :
        IsGenerate(calls[j]) /\ calls[j].site = site /\ calls[j].idx = idx /\ calls[j].ok

Returned == pc \in {"DONE", "FALLBACK_ABSTRACT"}

IsHierarchical == result.method.tag = "hierarchical_chunks"

\* the cases with no source text: no path, extraction raised, extraction gave ""
NoSourceText ==
    \/ ~pdf_path
    \/ extract_outcome = "exception"
    \/ extract_outcome = "text" /\ extract_text_from_pdf(pages) = <<>>

\* C1: when the token count is below 50,000 and the single-pass generation call
\* fails, no result is returned for the document and neither chunk_text,
\* summarize_text_chunk nor create_final_summary is invoked afterwards.
C1_SinglePassFailurePropagates ==
    GenFailed("single_pass", 0) =>
        /\ result = NoResult
        /\ ~Made("chunk_text")
        /\ ~Made("summarize_text_chunk")
        /\ ~Made("create_final_summary")

\* C2: chunk_text is invoked only for documents whose reference-stripped text
\* counts at least 50,000 tokens (exactly 50,000 included), whatever generation
\* calls fail.
C2_ChunkerOnlyAtOrAboveThreshold ==
    Made("chunk_text") => token_count >= SinglePassThreshold

\* C3: a result tagged abstract_only was produced with no extracted text, and a
\* result tagged full_text_single_pass only with a token count below 50,000.
C3_MethodTagCorrect ==
    /\ result.method.tag = "abstract_only" => NoSourceText
    /\ result.method.tag = "full_text_single_pass" =>
           Made("count_tokens") /\ token_count < SinglePassThreshold

\* C4: with no source text (no pdf_path, or extraction returning None or "") the
\* call returns method abstract_only with the paper's abstract as summary, and
\* makes no call of detect_sections, the token counter, chunk_text, the
\* summarizers or the generation client.
C4_NoTextGivesAbstract ==
    (NoSourceText /\ (pdf_path => extract_outcome # "none")) =>
        /\ pc = "FALLBACK_ABSTRACT" \/ (pc = "START" /\ ~pdf_path)
        /\ pc = "FALLBACK_ABSTRACT" =>
               /\ result.method = Method("abstract_only")
               /\ result.summary = <<ABS>>
        /\ \A op \in {"detect_sections", "count_tokens", "chunk_text",
                      "summarize_text_chunk", "create_final_summary", "generate"} :
               ~Made(op)

C4_Witness ==
    /\ pc = "FALLBACK_ABSTRACT"
    /\ extract_outcome = "text"
    /\ pages = <<>>
    /\ result.summary = <<ABS>>

\* C5: in a result tagged hierarchical_N_chunks, N is the number of chunks
\* chunk_text returned for the document and the number of chunk summaries
\* passed to create_final_summary, whichever generation calls failed.
C5_TagCountsChunks ==
    (pc = "DONE" /\ IsHierarchical) =>
        /\ result.method.n = Len(chunk_text(text_no_refs, ChunkMaxTokens))
        /\ result.method.n = Len(chunks)
        /\ result.method.n = Len(merge_arg)
        /\ Made("create_final_summary")

C5_Witness ==
    /\ pc = "DONE" /\ IsHierarchical
    /\ result.method.n = 3
    /\ GenFailed("chunk", 2)
    /\ GenFailed("merge", 0)

\* C6: on the hierarchical path summarize_text_chunk is called once per chunk,
\* in chunk order, with the 1-based position and the total; create_final_summary
\* is called once, after all chunk summaries are collected, with the summaries
\* in chunk order.
C6_ChunkCallsInOrderThenOneMerge ==
    LET sc == SelectSeq(calls, LAMBDA c : c.op = "summarize_text_chunk")
        mp == Positions("create_final_summary")
    IN /\ Len(sc) = Len(chunk_summaries)
       /\ Len(sc) <= Len(chunks)
       /\ \A i \in 1..Len(sc) :
              sc[i].idx = i /\ sc[i].total = Len(chunks) /\ sc[i].text = chunks[i]
       /\ Cardinality(mp) <= 1
       /\ \A m \in mp :
              /\ \A j \in Positions("summarize_text_chunk") : j < m
              /\ Len(sc) = Len(chunks)
              /\ merge_arg = chunk_summaries
       /\ (pc = "DONE" /\ IsHierarchical) => Cardinality(mp) = 1

C6_Witness ==
    /\ pc = "DONE" /\ IsHierarchical
    /\ Len(chunks) = 4
    /\ Len(SelectSeq(calls, LAMBDA c : c.op = "summarize_text_chunk")) = 4

\* C10: a chunk whose generation call fails is summarized by its first 500
\* characters, the other chunks keep their generated summaries, the merge step
\* still runs and the call completes with a hierarchical_n_chunks result.
C10_ChunkFailureDegradesOnlyThatChunk ==
    /\ \A k \in 1..Len(chunk_summaries) :
           /\ GenFailed("chunk", k) => chunk_summaries[k] = Prefix(chunks[k], ExcerptLen)
           /\ GenSucceeded("chunk", k) => IsGenerated(chunk_summaries[k])
    /\ (\E k \in 1..Len(chunks) : GenFailed("chunk", k)) =>
           /\ pc \in {"SUMMARIZING", "DONE"}
           /\ pc = "SUMMARIZING" => ENABLED Next
           /\ pc = "DONE" =>
                  /\ Made("create_final_summary")
                  /\ result.method = HierarchicalMethod(Len(chunks))
                  /\ Len(merge_arg) = Len(chunks)

C10_Witness ==
    /\ pc = "DONE" /\ IsHierarchical
    /\ Len(chunks) = 4
    /\ GenFailed("chunk", 3)
    /\ TextLen(chunks[3]) > ExcerptLen
    /\ chunk_summaries[3] = Prefix(chunks[3], ExcerptLen)
    /\ TextLen(chunk_summaries[3]) = ExcerptLen
    /\ \A k \in {1, 2, 4} : IsGenerated(chunk_summaries[k])

\* the texts in order with "\n\n" between consecutive ones and nothing else
RECURSIVE Interleaved(_, _)
Interleaved(parts, k) ==
    IF k > Len(parts) THEN <<>>
    ELSE (IF k > 1 THEN <<NL, NL>> ELSE <<>>) \o parts[k] \o Interleaved(parts, k + 1)

\* C11: when the merge generation call fails, or no client is configured,
\* create_final_summary returns the chunk summaries verbatim in their order,
\* with only the separator between consecutive summaries.
C11_MergeFallbackConcatenates ==
    (pc = "DONE" /\ IsHierarchical /\ (GenFailed("merge", 0) \/ ~client)) =>
        /\ merge_arg = chunk_summaries
        /\ result.summary = Interleaved(chunk_summaries, 1)

C11_Witness ==
    /\ pc = "DONE" /\ IsHierarchical
    /\ GenFailed("merge", 0)
    /\ Len(chunk_summaries) = 4
    /\ IsGenerated(chunk_summaries[1])
    /\ GenFailed("chunk", 2)
    /\ result.summary = chunk_summaries[1] \o <<NL, NL>> \o chunk_summaries[2] \o <<NL, NL>>
                            \o chunk_summaries[3] \o <<NL, NL>> \o chunk_summaries[4]

\* the rule of section_patterns that names the references section
ReferencesRule == section_patterns[7]

\* C12: whenever detect_sections reports a references section, the text that is
\* counted, chunked and sent to generation holds no part of that section: it
\* ends before the section's header.
C12_DetectedReferencesExcluded ==
    (Made("count_tokens") /\ \E i \in 1..Len(sections) : sections[i].name = "references") =>
        /\ Len(text_no_refs) < FirstMatch(full_text, ReferencesRule)
        /\ text_no_refs = SubSeq(full_text, 1, Len(text_no_refs))

\* how often a line was printed
Reported(line) == Cardinality({j \in 1..Len(reports) : reports[j] = line})

\* the chunk summaries that are excerpts of their chunks
Excerpts == {i \in 1..Len(chunk_summaries) : ~IsGenerated(chunk_summaries[i])}

\* C15: every locally recovered failure is reported: whenever a chunk summary
\* is replaced by the truncated excerpt, the final summary by the concatenation,
\* or the result by the abstract, a failure report has been emitted by the time
\* the degraded value is returned, also when the cause is that no client is
\* configured.
C15_DegradationsReported ==
    /\ Cardinality(Excerpts) <= Reported("Error summarizing chunk")
    /\ (pc = "DONE" /\ IsHierarchical /\ ~IsGenerated(result.summary))
          => Reported("Error creating final summary") = 1
    /\ (Returned /\ result.method.tag = "abstract_only") => reports # <<>>

\* the state of the spec a position of the code belongs to
StateOf(p) == IF p = "SUMMARIZING" THEN "HIERARCHICAL" ELSE p

StateOrder ==
    { <<"START", "EXTRACTING">>, <<"START", "FALLBACK_ABSTRACT">>,
      <<"EXTRACTING", "COUNTING">>, <<"EXTRACTING", "FALLBACK_ABSTRACT">>,
      <<"COUNTING", "SINGLE_PASS">>, <<"COUNTING", "HIERARCHICAL">>,
      <<"SINGLE_PASS", "DONE">>, <<"HIERARCHICAL", "DONE">> }

\* C16: a run visits the states only in the order START, EXTRACTING, COUNTING,
\* then exactly one of SINGLE_PASS or HIERARCHICAL, then DONE (FALLBACK_ABSTRACT
\* being reached from START or EXTRACTING only), and once it is terminal no
\* further call is made.
C16_StatesInOrder ==
    [][/\ StateOf(pc') # StateOf(pc) => <<StateOf(pc), StateOf(pc')>> \in StateOrder
       /\ Returned => calls' = calls]_vars

\* ------------------------------------------------- chunker, as a program
\* bounds of the inputs chunk_text is applied to
MaxLen == 7
MaxTok == 5

Alphabet == {1, 2, DOT, SP, NL}

Texts == UNION {[1..n -> Alphabet] : n \in 0..MaxLen}

InitChunk ==
    /\ OrchIdle /\ DetectIdle /\ PipeIdle
    /\ ct_pc = "call"
    /\ ct_text \in Texts
    /\ ct_max \in 0..MaxTok
    /\ ct_chunks = <<>>

\* a call of chunk_text(text, max_tokens) returning its list
ChunkCall ==
    /\ ct_pc = "call"
    /\ ct_chunks' = chunk_text(ct_text, ct_max)
    /\ ct_pc' = "returned"
    /\ UNCHANGED <<ct_text, ct_max, ovars, dvars, pvars>>

NextChunk == ChunkCall

SpecChunk == InitChunk /\ [][NextChunk]_vars

\* a text without its blank-line paragraph separators
WithoutParaSeps(s) == Concat(Split(s, ParaSep))

\* the words of a text, in order, without the separator characters
Words(s) == SelectSeq(s, LAMBDA c : c > 0)

\* a chunk that is one sentence (with or without its terminator) which alone
\* exceeds the budget
SingleOversizedSentence(chunk, max_tokens) ==
    LET sentences == SelectSeq(Split(chunk, SentSep), LAMBDA x : x # <<>>)
    IN /\ Len(Split(chunk, ParaSep)) = 1
       /\ Len(sentences) = 1
       /\ count_tokens(sentences[1]) > max_tokens

\* C7: every chunk chunk_text returns counts at most max_tokens tokens, except
\* a chunk that is one single sentence which alone exceeds max_tokens.
C7_ChunksWithinBudget ==
    ct_pc = "returned" =>
        \A i \in 1..Len(ct_chunks) :
            \/ count_tokens(ct_chunks[i]) <= ct_max
            \/ SingleOversizedSentence(ct_chunks[i], ct_max)

\* C8: the chunks chunk_text returns, concatenated in order, are the input text
\* when the blank-line separators between paragraphs are ignored: nothing else
\* is added, dropped or duplicated.
C8_ChunksReproduceText ==
    ct_pc = "returned" =>
        Norm(WithoutParaSeps(Concat([i \in 1..Len(ct_chunks) |-> WithoutParaSeps(ct_chunks[i])])))
            = Norm(WithoutParaSeps(ct_text))

\* C9: chunk_text keeps the input order: each word of the input is in exactly
\* one chunk, and reading the chunks in order gives the words in input order.
C9_ChunksKeepOrder ==
    ct_pc = "returned" => Words(Concat(ct_chunks)) = Words(ct_text)

C9_Witness ==
    /\ ct_pc = "returned"
    /\ Len(ct_chunks) = 3
    /\ Words(ct_text) = <<1, 2, 1>>
    /\ \E i \in 1..(Len(ct_text) - 1) : ct_text[i] = DOT /\ ct_text[i + 1] = SP
    /\ \E i \in 1..(Len(ct_text) - 1) : ct_text[i] = NL /\ ct_text[i + 1] = NL

\* the paragraphs of the text given to chunk_text
Paragraphs == Split(ct_text, ParaSep)

\* no paragraph exceeds the budget alone, so the sentence loop is never entered
ParagraphsFit == \A k \in 1..Len(Paragraphs) : count_tokens(Paragraphs[k]) <= ct_max

WithoutNewlines(s) == SelectSeq(s, LAMBDA c : c # NL)

\* C17: chunk_text accumulates paragraphs greedily: the next paragraph joins
\* the buffer whenever buffer, blank-line separator and paragraph together count
\* at most max_tokens (equality included), so a buffer is flushed before a
\* paragraph only when adding it would exceed max_tokens; and after the last
\* paragraph the buffer is flushed, so that nothing of the text is left out.
C17_GreedyAccumulation ==
    ct_pc = "returned" =>
        /\ \A i \in 1..(Len(ct_chunks) - 1) :
              count_tokens(ct_chunks[i] \o ParaSep \o Split(ct_chunks[i + 1], ParaSep)[1])
                  > ct_max
        /\ ParagraphsFit =>
              /\ \A i \in 1..Len(ct_chunks) : count_tokens(ct_chunks[i]) <= ct_max
              /\ WithoutNewlines(Concat(ct_chunks)) = WithoutNewlines(ct_text)

\* two paragraphs that reach the budget exactly stay together, the third is
\* flushed apart
C17_Witness ==
    /\ ct_pc = "returned"
    /\ Len(Paragraphs) = 3
    /\ \A k \in 1..3 : Paragraphs[k] # <<>>
    /\ count_tokens(Paragraphs[1] \o ParaSep \o Paragraphs[2]) = ct_max
    /\ ct_chunks = <<Paragraphs[1] \o ParaSep \o Paragraphs[2], Paragraphs[3]>>

NoEmptyChunk ==
    /\ \A i \in 1..Len(ct_chunks) : ct_chunks[i] # <<>>
    /\ ct_text = <<>> => ct_chunks = <<>>

\* C19 as stated: chunk_text never returns an empty chunk, an empty input gives
\* the empty list, and a non-empty input that counts at most max_tokens tokens
\* gives exactly one chunk, equal to the input.
C19_SmallInputIsTheOnlyChunk ==
    ct_pc = "returned" =>
        /\ NoEmptyChunk
        /\ (ct_text # <<>> /\ count_tokens(ct_text) <= ct_max) => ct_chunks = <<ct_text>>

\* --------------------------------------------- section detector, as a program
MaxLines == 4

\* the lines the texts are made of: body text, headers with and without a
\* numeric prefix, padded with blanks, in a casing only IGNORECASE accepts
DetectLines ==
    { <<>>, <<1>>, <<INTRO>>, <<SP, RESULTS, SP>>, <<ONE, DOT, SP, INTRO>>,
      <<NUM, SP, RESULTS>>, <<NUM, DOT, SP, INTRO>>, <<REFLC>>, <<CONCL>> }

\* every line followed by its newline
Unlines(lines) == Concat([k \in 1..Len(lines) |-> lines[k] \o <<NL>>])

DetectTexts == {Unlines(ls) : ls \in UNION {[1..n -> DetectLines] : n \in 0..MaxLines}}

InitDetect ==
    /\ OrchIdle /\ ChunkIdle /\ PipeIdle
    /\ ds_pc = "call"
    /\ ds_text \in DetectTexts
    /\ ds_sections = <<>>

\* a call of detect_sections(text) returning its dict
DetectCall ==
    /\ ds_pc = "call"
    /\ ds_sections' = detect_sections(ds_text)
    /\ ds_pc' = "returned"
    /\ UNCHANGED <<ds_text, ovars, cvars, pvars>>

NextDetect == DetectCall

SpecDetect == InitDetect /\ [][NextDetect]_vars

\* the rules that match ds_text somewhere
Matching == {i \in 1..Len(section_patterns) :
                \E p \in 1..Len(ds_text) : HeaderAt(ds_text, p, section_patterns[i])}

\* where rule i matches first
LeastStart(i) ==
    CHOOSE p \in 1..Len(ds_text) :
        /\ HeaderAt(ds_text, p, section_patterns[i])
        /\ \A r \in 1..(p - 1) : ~HeaderAt(ds_text, r, section_patterns[i])

\* the last position of the span of rule i: one before the next header found,
\* or the end of the text
SpanEnd(i) ==
    LET later == {LeastStart(j) : j \in {m \in Matching : LeastStart(m) > LeastStart(i)}}
    IN IF later = {} THEN Len(ds_text)
       ELSE (CHOOSE p \in later : \A r \in later : p <= r) - 1

Span(i) == SubSeq(ds_text, LeastStart(i), SpanEnd(i))

\* the rule an entry of the dict belongs to
RuleOf(entry) == CHOOSE i \in 1..Len(section_patterns) : section_patterns[i].name = entry.name

\* one entry per matching rule and none for the others, in the order of the
\* first matches, which are at distinct positions
EntriesFollowFirstMatches ==
    /\ Len(ds_sections) = Cardinality(Matching)
    /\ \A i \in Matching : \E k \in 1..Len(ds_sections) :
          ds_sections[k].name = section_patterns[i].name
    /\ \A k \in 1..Len(ds_sections) : RuleOf(ds_sections[k]) \in Matching
    /\ \A k, m \in 1..Len(ds_sections) :
          k < m => LeastStart(RuleOf(ds_sections[k])) < LeastStart(RuleOf(ds_sections[m]))

MaxPapers == 2
MaxRuns == 2

\* the PDFs of the papers: without pages, short, and at the threshold
PipeDocs == { <<>>, <<<<1>>>>, [k \in 1..4 |-> <<Big, NL>>] }

\* what fetch_papers can yield: papers with distinct ids
PaperLists ==
    UNION {[1..n -> {[id |-> k, doc |-> d] : k \in 1..n, d \in PipeDocs}] : n \in 0..MaxPapers}

\* AISafetyKnowledgeBase._paper_id_to_doc_id: the MD5 digest, distinct for
\* the ids of a batch
paper_id_to_doc_id(paper_id) == <<"md5", paper_id>>

paper == papers[paper_idx]

\* what the loop did with a paper
Examined(event, path) ==
    [id |-> paper.id, event |-> event,
     in_kb |-> paper_id_to_doc_id(paper.id) \in kb,
     path |-> path, degraded |-> reports # <<>>]

\* a PaperSummarizer that is not inside summarize_paper_full_text
SummarizerIdle ==
    /\ pc' = "IDLE" /\ pdf_path' = FALSE /\ pages' = <<>>
    /\ extract_outcome' = "none" /\ full_text' = <<>> /\ text_no_refs' = <<>>
    /\ token_count' = 0 /\ sections' = <<>> /\ chunks' = <<>> /\ chunk_summaries' = <<>>
    /\ merge_arg' = <<>> /\ result' = NoResult /\ calls' = <<>> /\ reports' = <<>>
    /\ UNCHANGED client

\* summarizer.summarize_paper_full_text(paper, pdf_path) is entered
SummarizerCalled ==
    /\ pc' = "START" /\ pdf_path' = TRUE /\ pages' = paper.doc
    /\ UNCHANGED <<client, extract_outcome, full_text, text_no_refs, token_count, sections,
                   chunks, chunk_summaries, merge_arg, result, calls, reports>>

\* the constructors have run and fetch_papers is about to yield
InitPipe ==
    /\ pc = "IDLE" /\ pdf_path = FALSE /\ pages = <<>> /\ client \in BOOLEAN
    /\ extract_outcome = "none" /\ full_text = <<>> /\ text_no_refs = <<>>
    /\ token_count = 0 /\ sections = <<>> /\ chunks = <<>> /\ chunk_summaries = <<>>
    /\ merge_arg = <<>> /\ result = NoResult /\ calls = <<>> /\ reports = <<>>
    /\ ChunkIdle /\ DetectIdle
    /\ papers \in {ps \in PaperLists : \A k \in 1..Len(ps) : ps[k].id = k}
    /\ pipe_pc = "LOOP" /\ paper_idx = 1 /\ kb = {} /\ pdf_cache = {}
    /\ run = 1 /\ plog = <<>> /\ raised = ""

AtPaper == pipe_pc = "LOOP" /\ paper_idx <= Len(papers)

\* is_processed finds the document: "Already processed, skipping."
IsProcessedTrue ==
    /\ AtPaper /\ paper_id_to_doc_id(paper.id) \in kb
    /\ plog' = Append(plog, Examined("already_processed", FALSE))
    /\ paper_idx' = paper_idx + 1
    /\ UNCHANGED <<ovars, cvars, dvars, papers, pipe_pc, kb, pdf_cache, run, raised>>

\* is_processed finds no document
IsProcessedFalse ==
    /\ AtPaper /\ paper_id_to_doc_id(paper.id) \notin kb
    /\ pipe_pc' = "DOWNLOAD"
    /\ UNCHANGED <<ovars, cvars, dvars, papers, paper_idx, kb, pdf_cache, run, plog, raised>>

\* papers_collection.get raises: is_processed returns False
IsProcessedRaises ==
    /\ AtPaper
    /\ pipe_pc' = "DOWNLOAD"
    /\ UNCHANGED <<ovars, cvars, dvars, papers, paper_idx, kb, pdf_cache, run, plog, raised>>

\* download_pdf finds the file in the cache directory
DownloadCached ==
    /\ pipe_pc = "DOWNLOAD" /\ paper.id \in pdf_cache
    /\ SummarizerCalled
    /\ pipe_pc' = "SUMMARIZING"
    /\ UNCHANGED <<cvars, dvars, papers, paper_idx, kb, pdf_cache, run, plog, raised>>

\* download_pdf downloads the file
DownloadOk ==
    /\ pipe_pc = "DOWNLOAD" /\ paper.id \notin pdf_cache
    /\ pdf_cache' = pdf_cache \cup {paper.id}
    /\ SummarizerCalled
    /\ pipe_pc' = "SUMMARIZING"
    /\ UNCHANGED <<cvars, dvars, papers, paper_idx, kb, run, plog, raised>>

\* the download raises: download_pdf returns None, "Failed to download PDF"
DownloadFails ==
    /\ pipe_pc = "DOWNLOAD" /\ paper.id \notin pdf_cache
    /\ plog' = Append(plog, Examined("download_failed", FALSE))
    /\ paper_idx' = paper_idx + 1
    /\ pipe_pc' = "LOOP"
    /\ UNCHANGED <<ovars, cvars, dvars, papers, kb, pdf_cache, run, raised>>

\* summarize_paper_full_text has returned: zotero_adapter.add_paper (which
\* catches its failures and returns a key or None) and store_paper's upsert
AddAndStore ==
    /\ pipe_pc = "SUMMARIZING" /\ Returned
    /\ kb' = kb \cup {paper_id_to_doc_id(paper.id)}
    /\ plog' = Append(plog, Examined("stored", TRUE))
    /\ paper_idx' = paper_idx + 1
    /\ pipe_pc' = "LOOP"
    /\ SummarizerIdle
    /\ UNCHANGED <<cvars, dvars, papers, pdf_cache, run, raised>>

\* the upsert of store_paper raises: nothing catches it
StoreRaises ==
    /\ pipe_pc = "SUMMARIZING" /\ Returned
    /\ pipe_pc' = "ABORTED"
    /\ raised' = "store_paper"
    /\ UNCHANGED <<ovars, cvars, dvars, papers, paper_idx, kb, pdf_cache, run, plog>>

\* fetch_papers yields no further paper
LoopEnds ==
    /\ pipe_pc = "LOOP" /\ paper_idx > Len(papers)
    /\ pipe_pc' = "FINISHED"
    /\ UNCHANGED <<ovars, cvars, dvars, papers, paper_idx, kb, pdf_cache, run, plog, raised>>

\* summarize_papers_pipeline is run again on the same papers: the collection
\* and the cache directory persist
Rerun ==
    /\ pipe_pc \in {"FINISHED", "ABORTED"} /\ run < MaxRuns
    /\ run' = run + 1
    /\ paper_idx' = 1 /\ plog' = <<>> /\ raised' = "" /\ pipe_pc' = "LOOP"
    /\ SummarizerIdle
    /\ UNCHANGED <<cvars, dvars, papers, kb, pdf_cache>>

NextPipe ==
    \/ IsProcessedTrue \/ IsProcessedFalse \/ IsProcessedRaises
    \/ DownloadCached \/ DownloadOk \/ DownloadFails
    \/ BeginExtract \/ ExtractRaises \/ ExtractEmpty \/ ExtractText
    \/ CountTokens \/ SinglePassNoClient \/ SinglePassOk \/ SinglePassFails
    \/ ChunkText \/ SummarizeNoClient \/ SummarizeOk \/ SummarizeFails
    \/ MergeNoClient \/ MergeOk \/ MergeFails
    \/ AddAndStore \/ StoreRaises \/ LoopEnds \/ Rerun

SpecPipe == InitPipe /\ [][NextPipe]_vars

\* fetch_papers' papers the loop has dealt with in this run, in order
ExaminedInOrder == \A k \in 1..Len(plog) : plog[k].id = papers[k].id

\* C14: a failure while summarizing a paper (extraction failing, or a generation
\* call failing at single-pass, chunk or merge level) never ends the batch: the
\* run is ended by an exception only of store_paper, a paper whose summarizing
\* failed is stored like any other, and a run that is not ended so examines
\* every paper fetch_papers yields and stores each that is not yet processed
\* and has a PDF.
C14_SummarizerFailureKeepsBatchGoing ==
    /\ pipe_pc = "ABORTED" => raised = "store_paper"
    /\ pipe_pc # "ABORTED" => raised = ""
    /\ ExaminedInOrder
    /\ \A k \in 1..Len(plog) : plog[k].degraded => plog[k].event = "stored"
    /\ pipe_pc = "FINISHED" =>
          /\ Len(plog) = Len(papers)
          /\ \A k \in 1..Len(plog) : plog[k].path => plog[k].event = "stored"

\* the summarizing of the first paper failed (its PDF has pages, so the
\* extraction raised or a generation call did), and the second paper was
\* summarized without failure and stored after it
C14_Witness ==
    /\ pipe_pc = "FINISHED"
    /\ Len(plog) = 2
    /\ plog[1].degraded /\ plog[1].event = "stored" /\ papers[1].doc # <<>>
    /\ plog[2].event = "stored" /\ ~plog[2].degraded

\* C18: store_paper (with the summarizing and the Zotero add before it) is done
\* for a fetched paper exactly when is_processed was false and download_pdf
\* gave a path; otherwise the knowledge base is left as it is; and once a paper
\* is stored is_processed is true for it, so a further run on the same papers
\* stores nothing again.
C18_StoredPapersAreSkipped ==
    \A k \in 1..Len(plog) :
        /\ plog[k].event = "stored" <=> plog[k].path
        /\ plog[k].in_kb => plog[k].event = "already_processed"

====
